---- MODULE Spec2Model ----
(***************************************************************************)
(* A model of chromograph.py: the plot_* entry points, the shared settings *)
(* dict they mutate, the bed loader, the exome segment merger, the wiggle  *)
(* decoder, the UPD region classifier, graph_coordinates and main.         *)
(*                                                                         *)
(* Python values are modelled as follows.  A dict is a function over its   *)
(* keys.  A dataframe is a sequence of row records in positional order.    *)
(* A float quotient is an exact fraction [num, den] in lowest terms.  A    *)
(* path is a record [dir, base].  A raised exception ends the entry point  *)
(* and is recorded in status.                                              *)
(***************************************************************************)
EXTENDS Integers, Sequences, FiniteSets, TLC

VARIABLES
    DEFAULT_SETTING,  \* the module-level settings dict
    ncalls,           \* number of plot_* calls made in this process
    call,             \* the last call: [fn, filepath, args, kwargs]
    settings,         \* the dict the last call got from _args_to_dict
    infile,           \* content of the last call's input file (after the header)
    status,           \* outcome of the last call: [kind, detail]
    outfiles,         \* files written by the last call: [label, kind]
    is_printed,       \* labels appended to is_printed by the last call
    chromosome_list,  \* allow-list _read_dataframe selected
    dataframe,        \* rows of the frame the last call worked on
    mask,             \* exome: run id per surviving row
    dataframe2,       \* exome: the merged segments
    region_list,      \* UPD regions: the dicts of region_to_dict
    region_list_chr,  \* UPD regions: the runs of compile_per_chrom
    filestream,       \* wig: the lines not yet read
    chrom,            \* wig: the current chromosome of wig_to_dataframe
    pos,              \* wig: the running position of wig_to_dataframe
    coverage_data,    \* wig: the points appended so far
    build,            \* behaviour of the installed libraries:
                      \* [clip_inplace, filter_keeps_index]
    coords,           \* the last graph_coordinates call:
                      \* [list, chrom_ybase, chrom_centers]
    main              \* the command line run: [pc, requested, args, calls]

vars == <<DEFAULT_SETTING, ncalls, call, settings, infile, status, outfiles,
          is_printed, chromosome_list, dataframe, mask, dataframe2,
          region_list, region_list_chr, filestream, chrom, pos,
          coverage_data, build, coords, main>>

-----------------------------------------------------------------------------
(* Bounds of the model *)

MaxRows == 3
MaxCalls == 2

-----------------------------------------------------------------------------
(* Module constants *)

PADDING == 200000
CHROM_END_POS == 249255000
WIG_ORANGE == "#DB6400"
WIG_MAX == 70
COVERAGE_FLOOR == 10
GAP_LIMIT == 10000
CLIP_UPPER == 80

CHROMOSOMES ==
    <<"1", "2", "3", "4", "5", "6", "7", "8", "9", "10", "11", "12", "13",
      "14", "15", "16", "17", "18", "19", "20", "21", "22", "M", "X", "Y">>

get_color ==
    [acen |-> "#b56666", gneg |-> "#fafafa", gpos100 |-> "#121212",
     gpos25 |-> "#666666", gpos50 |-> "#606060", gpos75 |-> "#2e2e2e",
     gvar |-> "#777777", stalk |-> "#444444",
     ANTI_UPD |-> "#509188", PB_HETEROZYGOUS |-> "#35605A",
     PB_HOMOZYGOUS |-> "#6B818C", UNINFORMATIVE |-> "#FFFFFF",
     UPD_MATERNAL_ORIGIN |-> "#aa2200", UPD_PATERNAL_ORIGIN |-> "#0044ff",
     MATERNAL |-> "#aa2200", PATERNAL |-> "#0044ff",
     MATERNAL_LIGHT |-> "#F48C95", PATERNAL_LIGHT |-> "#6C88FF",
     EXOM_COV |-> "#FF5965"]
    @@ ("HETERODISOMY/DELETION" :> "#BDB76B")
    @@ ("ISODISOMY/DELETION" :> "#FFE4B5")

-----------------------------------------------------------------------------
(* Generic helpers for Python values *)

None == "<None>"
Absent == "<absent>"

Range(s) == {s[i] : i \in 1..Len(s)}

SeqsUpTo(S, n) == UNION {[1..k -> S] : k \in 0..n}

\* d[k] = v on a dict
DictSet(d, k, v) == [kk \in DOMAIN d \cup {k} |-> IF kk = k THEN v ELSE d[kk]]

\* os.path.dirname on a path [dir, base]
dirname(path) == path.dir

RECURSIVE GCD(_, _)
GCD(a, b) == IF b = 0 THEN a ELSE GCD(b, a % b)

\* the quotient n / d of two numbers, d > 0, n >= 0, in lowest terms
Frac(n, d) == LET g == GCD(n, d) IN [num |-> n \div g, den |-> d \div g]

\* the strings int() accepts among the chromosome labels of the model
IntStrings == {ToString(n) : n \in 0..99}

Ok(v) == [err |-> "none", val |-> v]
Raise(e) == [err |-> e, val |-> <<>>]

-----------------------------------------------------------------------------
(* Settings *)

DefaultSettingAtImport ==
    [combine |-> FALSE, normalize |-> FALSE, euploid |-> FALSE,
     agg_chunk_size |-> 10000]

args_to_dict_reset(d, filepath, args, kwargs) ==
    LET s1 == DictSet(d, "outd", dirname(filepath))
        s2 == DictSet(s1, "combine", "combine" \in args)
        s3 == DictSet(s2, "normalize", "norm" \in args)
        s4 == DictSet(s3, "euploid", "euploid" \in args)
    IN  IF kwargs.outd \notin {Absent, None}
        THEN DictSet(s4, "outd", kwargs.outd)
        ELSE s4

\* _args_to_dict: the dict it returns IS the shared dict d, mutated in place;
\* the operator gives the dict's content after the call.
args_to_dict(d, filepath, args, kwargs) ==
    LET s1 == DictSet(d, "outd", dirname(filepath))
        s2 == IF "combine" \in args THEN DictSet(s1, "combine", TRUE) ELSE s1
        s3 == IF "norm" \in args THEN DictSet(s2, "normalize", TRUE) ELSE s2
        s4 == IF "euploid" \in args THEN DictSet(s3, "euploid", TRUE) ELSE s3
    IN  IF kwargs.outd \notin {Absent, None}
        THEN DictSet(s4, "outd", kwargs.outd)
        ELSE s4

-----------------------------------------------------------------------------
(* Bed loader *)

get_chromosome_list(kind) ==
    IF kind = "str"
    THEN [i \in 1..Len(CHROMOSOMES) |-> "chr" \o CHROMOSOMES[i]]
    ELSE CHROMOSOMES

is_chr_str(label) == IF label \in IntStrings THEN "int" ELSE "str"

\* chr_utils.filter_dataframe: keep the rows whose chromosome is in the list
filter_dataframe(rows, list) ==
    SelectSeq(rows, LAMBDA r : r.chrom \in Range(list))

\* _read_dataframe: SystemExit(0) on an empty table, else the filtered rows
\* and the allow-list chosen from the first row
read_dataframe(rows) ==
    IF rows = <<>>
    THEN Raise("SystemExit(0)")
    ELSE LET list == get_chromosome_list(is_chr_str(rows[1].chrom))
         IN  Ok([chromosome_list |-> list,
                 dataframe |-> filter_dataframe(rows, list)])

-----------------------------------------------------------------------------
(* Exome segment merger *)

\* labels in the order pandas sorts group keys (Python string order)
SortedLabels ==
    <<"1", "10", "11", "12", "13", "14", "15", "16", "17", "18", "19", "2",
      "20", "21", "22", "3", "4", "5", "6", "7", "8", "9", "M", "X", "Y">>
    \o
    <<"chr1", "chr10", "chr11", "chr12", "chr13", "chr14", "chr15", "chr16",
      "chr17", "chr18", "chr19", "chr2", "chr20", "chr21", "chr22", "chr3",
      "chr4", "chr5", "chr6", "chr7", "chr8", "chr9", "chrM", "chrX", "chrY">>

LabelRank(c) == CHOOSE i \in 1..Len(SortedLabels) : SortedLabels[i] = c

\* dataframe.drop(dataframe[dataframe.meanCoverage < 10.0].index)
drop_low_coverage(rows) ==
    SelectSeq(rows, LAMBDA r : ~(r.meanCoverage < COVERAGE_FLOOR))

\* dataframe['end'].shift(fill_value=0)
shifted_end(rows, i) == IF i = 1 THEN 0 ELSE rows[i - 1].end

gap_flag_ge(rows, i) == rows[i].start - shifted_end(rows, i) >= GAP_LIMIT

\* start.sub(end.shift(fill_value=0)).gt(10000)
gap_flag(rows, i) == rows[i].start - shifted_end(rows, i) > GAP_LIMIT

RECURSIVE cumsum_upto(_, _)
cumsum_upto(rows, i) ==
    IF i = 0 THEN 0
    ELSE cumsum_upto(rows, i - 1) + (IF gap_flag(rows, i) THEN 1 ELSE 0)

\* mask: the run id of every row
mask_of(rows) == [i \in 1..Len(rows) |-> cumsum_upto(rows, i)]

\* the keys of groupby([mask, 'chrom']) in sorted order
KeyLess(a, b) ==
    \/ a[1] < b[1]
    \/ a[1] = b[1] /\ LabelRank(a[2]) < LabelRank(b[2])

RECURSIVE sorted_keys(_)
sorted_keys(K) ==
    IF K = {} THEN <<>>
    ELSE LET k == CHOOSE a \in K : \A b \in K \ {a} : KeyLess(a, b)
         IN  <<k>> \o sorted_keys(K \ {k})

RECURSIVE sum_weight(_, _, _)
sum_weight(rows, I, i) ==
    IF i = 0 THEN 0
    ELSE sum_weight(rows, I, i - 1)
         + (IF i \in I
            THEN (rows[i].end - rows[i].start) * rows[i].meanCoverage
            ELSE 0)

Min(S) == CHOOSE x \in S : \A y \in S : x <= y
Max(S) == CHOOSE x \in S : \A y \in S : x >= y

\* sum / bar_width
bar_height_of(sum, bar_width) == Frac(sum, bar_width)

\* Series.clip(upper=80)
clip_upper(f) ==
    IF f.num > CLIP_UPPER * f.den THEN [num |-> CLIP_UPPER, den |-> 1] ELSE f

\* one row of dataframe2 for the group of rows I with key k; the field rows
\* records which rows of the frame the group holds
segment_of(rows, k, I, clip) ==
    LET first == Min(I)
        last == Max(I)
        sum == sum_weight(rows, I, Len(rows))
        bar_width == rows[last].end - rows[first].start + PADDING
        bar_height == bar_height_of(sum, bar_width)
    IN  [mask |-> k[1], chrom |-> k[2],
         start |-> rows[first].start, end |-> rows[last].end,
         sum |-> sum, bar_width |-> bar_width,
         bar_height |-> IF clip THEN clip_upper(bar_height) ELSE bar_height,
         rows |-> I]

\* groupby([mask, 'chrom']).agg(...) with bar_width and bar_height
merge_segments(rows, clip) ==
    LET m == mask_of(rows)
        keys == sorted_keys({<<m[i], rows[i].chrom>> : i \in 1..Len(rows)})
    IN  [j \in 1..Len(keys) |->
            segment_of(rows, keys[j],
                       {i \in 1..Len(rows) :
                           <<m[i], rows[i].chrom>> = keys[j]},
                       clip)]

\* print_bar_chart as the module defines it last: its loop body calls the
\* undefined common_settings, its euploid branch the undefined print_empty_pngs
print_bar_chart(segments, euploid) ==
    IF segments # <<>> THEN Raise("NameError: common_settings")
    ELSE IF euploid THEN Raise("NameError: print_empty_pngs")
    ELSE Ok(<<>>)

-----------------------------------------------------------------------------
(* State *)

NoCall == [fn |-> "none", filepath |-> [dir |-> "", base |-> ""],
           args |-> {},
           kwargs |-> [outd |-> Absent, step |-> Absent, rgb |-> Absent]]

Idle == [kind |-> "idle", detail |-> ""]
Done == [kind |-> "ok", detail |-> ""]
Failed(e) == [kind |-> IF e = "SystemExit(0)" THEN "exit" ELSE "error",
              detail |-> e]

\* the exit status of a command-line run that ends with the last call
ExitStatus == IF status.kind = "error" THEN 1 ELSE 0

\* no graph_coordinates call yet
NoCoords == [list |-> <<>>, chrom_ybase |-> <<>>, chrom_centers |-> <<>>]

\* the statements of main that call a plot_* function, in main's order
MainOrder ==
    <<"plot_ideogram", "plot_upd_sites", "plot_autozyg", "plot_exom_coverage",
      "plot_coverage_wig", "plot_homosnp_wig", "plot_upd_regions">>

\* main has not been entered
NoMain == [pc |-> 0, requested |-> {}, args |-> {}, calls |-> <<>>]

\* main's position after the call of fn it makes at its statement pc; a call
\* made outside main leaves main alone
main_after(fn) ==
    IF main.pc \in 1..Len(MainOrder)
    THEN [main EXCEPT !.pc = @ + 1, !.calls = Append(@, fn)]
    ELSE main

Init ==
    /\ DEFAULT_SETTING = DefaultSettingAtImport
    /\ ncalls = 0
    /\ call = NoCall
    /\ settings = DefaultSettingAtImport
    /\ infile = <<>>
    /\ status = Idle
    /\ outfiles = {}
    /\ is_printed = <<>>
    /\ chromosome_list = <<>>
    /\ dataframe = <<>>
    /\ mask = <<>>
    /\ dataframe2 = <<>>
    /\ region_list = <<>>
    /\ region_list_chr = <<>>
    /\ filestream = <<>>
    /\ chrom = ""
    /\ pos = 0
    /\ coverage_data = <<>>
    /\ build \in [clip_inplace : BOOLEAN, filter_keeps_index : BOOLEAN]
    /\ coords = NoCoords
    /\ main = NoMain

\* an initial state for the calls no library choice touches
InitFixed == Init /\ build.clip_inplace /\ build.filter_keeps_index

\* the process is alive: no call has ended it
Alive == status.kind \in {"idle", "ok"}

Running == [kind |-> "running", detail |-> ""]

\* the start of every plot_* function: the settings come from the shared
\* dict, which the call has mutated to s
Begin(fn, filepath, args, kwargs, content, s) ==
    /\ Alive
    /\ ncalls' = ncalls + 1
    /\ call' = [fn |-> fn, filepath |-> filepath, args |-> args,
                kwargs |-> kwargs]
    /\ DEFAULT_SETTING' = s
    /\ settings' = s
    /\ infile' = content
    /\ main' = main_after(fn)
    /\ UNCHANGED <<build, coords>>

\* the variables a call of another track family leaves empty
NoLoader == chromosome_list' = <<>> /\ dataframe' = <<>>
NoExom == mask' = <<>> /\ dataframe2' = <<>>
NoRegions == region_list' = <<>> /\ region_list_chr' = <<>>
NoWig ==
    /\ filestream' = <<>>
    /\ chrom' = ""
    /\ pos' = 0
    /\ coverage_data' = <<>>

-----------------------------------------------------------------------------
(* plot_exom_coverage *)

PlotExomCoverage(filepath, args, kwargs, rows) ==
    /\ Begin("plot_exom_coverage", filepath, args, kwargs, rows,
             args_to_dict(DEFAULT_SETTING, filepath, args, kwargs))
    /\ LET read == read_dataframe(rows)
       IN  IF read.err # "none"
           THEN /\ status' = Failed(read.err)
                /\ chromosome_list' = <<>>
                /\ dataframe' = <<>>
                /\ mask' = <<>>
                /\ dataframe2' = <<>>
           ELSE LET kept == drop_low_coverage(read.val.dataframe)
                    segs == merge_segments(kept, build.clip_inplace)
                    printed == print_bar_chart(segs, settings'.euploid)
                IN  /\ chromosome_list' = read.val.chromosome_list
                    /\ dataframe' = kept
                    /\ mask' = mask_of(kept)
                    /\ dataframe2' = segs
                    /\ status' = IF printed.err # "none"
                                 THEN Failed(printed.err)
                                 ELSE Done
    /\ outfiles' = {}
    /\ is_printed' = <<>>
    /\ NoRegions
    /\ NoWig

-----------------------------------------------------------------------------
(* Inputs *)

InDir == "in"
OutDir == "out"

Path(base) == [dir |-> InDir, base |-> base]

NoKwargs == [outd |-> Absent, step |-> Absent, rgb |-> Absent]

ExomRow(c, s, e, cov) ==
    [chrom |-> c, start |-> s, end |-> e, meanCoverage |-> cov]

ExomRows ==
    {ExomRow("1", 100, 200, 10),
     ExomRow("1", 205, 300, 20),
     ExomRow("1", 10300, 10400, 12),
     ExomRow("1", 10301, 10400, 30),
     ExomRow("1", 5000, 6000, 5),
     ExomRow("2", 150, 400, 40),
     ExomRow("10", 120, 220, 50),
     ExomRow("X", 100, 1000100, 100),
     ExomRow("GL1", 100, 200, 10)}

ExomFiles == SeqsUpTo(ExomRows, MaxRows)

NextExom ==
    \E rows \in ExomFiles, args \in {{}, {"euploid"}} :
        ncalls = 0 /\ PlotExomCoverage(Path("exom.bed"), args, NoKwargs, rows)

InitExom == Init /\ build.filter_keeps_index

SpecExom == InitExom /\ [][NextExom]_vars

-----------------------------------------------------------------------------
(* Layout and the writers of png files *)

HEIGHT == 1
YBASE == 0
SPACE == 1

ybase_at_no_space(i) == YBASE + HEIGHT * (i - 1)

\* the value of ybase in the iteration that handles the i-th label
ybase_at(i) == YBASE + (HEIGHT + SPACE) * (i - 1)

\* the iteration that assigns a label's entries last
last_index(list, c) == Max({i \in 1..Len(list) : list[i] = c})

\* graph_coordinates: base and centre offset of every label of the list; a
\* label that occurs twice keeps the offsets of its last occurrence
graph_coordinates(list) ==
    [chrom_ybase |->
        [c \in Range(list) |-> ybase_at(last_index(list, c))],
     chrom_centers |->
        [c \in Range(list) |->
            Frac(2 * ybase_at(last_index(list, c)) + HEIGHT, 2)]]

\* a call of graph_coordinates from a program that uses the module
GraphCoordinates(list) ==
    /\ coords' = [list |-> list,
                  chrom_ybase |-> graph_coordinates(list).chrom_ybase,
                  chrom_centers |-> graph_coordinates(list).chrom_centers]
    /\ UNCHANGED <<DEFAULT_SETTING, ncalls, call, settings, infile, status,
                   outfiles, is_printed, chromosome_list, dataframe, mask,
                   dataframe2, region_list, region_list_chr, filestream,
                   chrom, pos, coverage_data, build, main>>

MaxLabels == 4

Labels == {"A", "B", "C", "1", "chrX"}

NextLayout ==
    \E list \in SeqsUpTo(Labels, MaxLabels) :
        coords = NoCoords /\ GraphCoordinates(list)

SpecLayout == InitFixed /\ [][NextLayout]_vars

\* the labels of a frame in the order groupby("chrom") yields its groups
RECURSIVE sorted_labels(_)
sorted_labels(L) ==
    IF L = {} THEN <<>>
    ELSE LET c == CHOOSE a \in L :
                     \A b \in L \ {a} : LabelRank(a) < LabelRank(b)
         IN  <<c>> \o sorted_labels(L \ {c})

group_labels(rows) == sorted_labels({rows[i].chrom : i \in 1..Len(rows)})

\* the rows of one chromosome, in frame order
group_of(rows, c) == SelectSeq(rows, LAMBDA r : r.chrom = c)

Image(label, bars) == [label |-> label, kind |-> "image", bars |-> bars]
Placeholder(label) == [label |-> label, kind |-> "placeholder", bars |-> <<>>]

\* chr_utils.chr_type_format: "int" for a label int() accepts, else "str"
chr_type_format(label) == IF label \in IntStrings THEN "int" ELSE "str"

\* print_transparent_pngs: the placeholder files it writes; is_printed[0]
\* raises IndexError on an empty list
print_transparent_pngs(printed) ==
    IF printed = <<>>
    THEN Raise("IndexError")
    ELSE LET gene_build == chr_type_format(printed[1])
             prefix == IF gene_build = "str" THEN "chr" ELSE ""
         IN  Ok({Placeholder(prefix \o CHROMOSOMES[i]) :
                    i \in {j \in 1..Len(CHROMOSOMES) :
                              /\ CHROMOSOMES[j] \notin Range(printed)
                              /\ ("chr" \o CHROMOSOMES[j]) \notin Range(printed)}})

\* print_individual_pics: one image per chromosome group, then the
\* placeholders when euploid is set
print_individual_pics(rows, euploid) ==
    LET labels == group_labels(rows)
        images == {Image(labels[i], group_of(rows, labels[i])) :
                      i \in 1..Len(labels)}
        blank == print_transparent_pngs(labels)
    IN  [is_printed |-> labels,
         outfiles |-> IF euploid /\ blank.err = "none"
                      THEN images \cup blank.val ELSE images,
         err |-> IF euploid THEN blank.err ELSE "none"]

\* print_combined_pic: one image holding every group at its base offset;
\* y_positions[chrom] raises KeyError for a group the list does not name
print_combined_pic(rows, chrom_ybase, chrom_centers, chr_list) ==
    LET labels == group_labels(rows)
    IN  IF \E i \in 1..Len(labels) : labels[i] \notin DOMAIN chrom_ybase
        THEN [is_printed |-> <<>>, outfiles |-> {}, err |-> "KeyError"]
        ELSE [is_printed |-> <<>>,
              outfiles |->
                 {Image("combined",
                        [i \in 1..Len(labels) |->
                            [label |-> labels[i],
                             ybase |-> chrom_ybase[labels[i]],
                             bars |-> group_of(rows, labels[i])]])},
              err |-> "none"]

-----------------------------------------------------------------------------
(* plot_ideogram, plot_upd_sites, plot_autozyg *)

\* the dataframe["colors"] column: a lookup in get_color per row raises
\* KeyError on a key the dict lacks; plot_autozyg uses one fixed colour
with_colors(fn, rows) ==
    IF fn = "plot_autozyg"
    THEN Ok([i \in 1..Len(rows) |->
               [rows[i] EXCEPT !.colors = get_color["PB_HOMOZYGOUS"]]])
    ELSE IF \E i \in 1..Len(rows) : rows[i].key \notin DOMAIN get_color
    THEN Raise("KeyError")
    ELSE Ok([i \in 1..Len(rows) |->
               [rows[i] EXCEPT !.colors = get_color[rows[i].key]]])

\* dataframe["width"]
with_width(fn, rows) ==
    [i \in 1..Len(rows) |->
        [rows[i] EXCEPT !.width =
            (rows[i].end - rows[i].start)
            + (IF fn = "plot_ideogram" THEN 0 ELSE PADDING)]]

\* dataframe.chrom[0] on the filtered frame: the row labelled 0.  When the
\* filter keeps the index of the file that is the first row of the file, if it
\* survived; when it renumbers, the first surviving row.
chrom_at_0(file, rows, keeps_index) ==
    IF rows = <<>> THEN Raise("KeyError")
    ELSE IF ~keeps_index THEN Ok(rows[1].chrom)
    ELSE IF rows[1] = file[1] THEN Ok(file[1].chrom)
    ELSE Raise("KeyError")

bed_track(fn, file, s, b) ==
    LET read == read_dataframe(file)
        NoOutput(e, list, rows) ==
            [status |-> Failed(e), chromosome_list |-> list,
             dataframe |-> rows, outfiles |-> {}, is_printed |-> <<>>]
    IN  IF read.err # "none" THEN NoOutput(read.err, <<>>, <<>>)
        ELSE
        LET list == read.val.chromosome_list
            rows == read.val.dataframe
            wide == with_width(fn, rows)
            col == with_colors(fn, wide)
            first == chrom_at_0(file, rows, b.filter_keeps_index)
        IN  IF col.err # "none" THEN NoOutput(col.err, list, rows)
            ELSE IF first.err # "none" THEN NoOutput(first.err, list, rows)
            ELSE
            LET chr_list == get_chromosome_list(is_chr_str(first.val))
                xy == graph_coordinates(chr_list)
                pics == IF s.combine
                        THEN print_combined_pic(col.val, xy.chrom_ybase,
                                                xy.chrom_centers, chr_list)
                        ELSE print_individual_pics(col.val, s.euploid)
            IN  [status |-> IF pics.err # "none" THEN Failed(pics.err)
                            ELSE Done,
                 chromosome_list |-> list,
                 dataframe |-> col.val,
                 outfiles |-> pics.outfiles,
                 is_printed |-> pics.is_printed]

PlotBed(fn, filepath, args, kwargs, rows) ==
    /\ Begin(fn, filepath, args, kwargs, rows,
             args_to_dict(DEFAULT_SETTING, filepath, args, kwargs))
    /\ LET r == bed_track(fn, rows, settings', build)
       IN  /\ status' = r.status
           /\ chromosome_list' = r.chromosome_list
           /\ dataframe' = r.dataframe
           /\ outfiles' = r.outfiles
           /\ is_printed' = r.is_printed
    /\ NoExom
    /\ NoRegions
    /\ NoWig

PlotIdeogram(filepath, args, kwargs, rows) ==
    PlotBed("plot_ideogram", filepath, args, kwargs, rows)

PlotUpdSites(filepath, args, kwargs, rows) ==
    PlotBed("plot_upd_sites", filepath, args, kwargs, rows)

PlotAutozyg(filepath, args, kwargs, rows) ==
    PlotBed("plot_autozyg", filepath, args, kwargs, rows)

BedRow(c, s, e, k) ==
    [chrom |-> c, start |-> s, end |-> e, key |-> k, width |-> 0,
     colors |-> ""]

IdeogramRows ==
    {BedRow("1", 0, 2300000, "gneg"),
     BedRow("1", 2300000, 5300000, "gpos25"),
     BedRow("2", 0, 4400000, "acen"),
     BedRow("X", 0, 4400000, "gneg"),
     BedRow("chr1", 0, 2300000, "gneg"),
     BedRow("chrY", 0, 2300000, "stalk"),
     BedRow("1", 5300000, 7100000, "gpos33"),
     BedRow("GL1", 0, 100, "gneg")}

SitesRows ==
    {BedRow("1", 100, 101, "ANTI_UPD"),
     BedRow("1", 500, 501, "UPD_MATERNAL_ORIGIN"),
     BedRow("2", 100, 101, "UNINFORMATIVE"),
     BedRow("M", 100, 101, "PB_HOMOZYGOUS"),
     BedRow("chr2", 100, 101, "PB_HETEROZYGOUS"),
     BedRow("chrX", 100, 101, "UPD_PATERNAL_ORIGIN"),
     BedRow("2", 700, 701, "UPD_UNKNOWN"),
     BedRow("23", 100, 101, "ANTI_UPD")}

RohRows ==
    {BedRow("1", 100, 5000, ""),
     BedRow("1", 9000, 12000, ""),
     BedRow("10", 100, 5000, ""),
     BedRow("2", 100, 5000, ""),
     BedRow("Y", 100, 5000, ""),
     BedRow("chr1", 100, 5000, ""),
     BedRow("chrM", 100, 5000, ""),
     BedRow("GL1", 100, 5000, "")}

BedArgs == {{}, {"combine"}, {"euploid"}}

NextBed ==
    \/ \E args \in BedArgs, rows \in SeqsUpTo(IdeogramRows, MaxRows) :
          ncalls = 0 /\ PlotIdeogram(Path("cytoband.bed"), args, NoKwargs, rows)
    \/ \E args \in BedArgs, rows \in SeqsUpTo(SitesRows, MaxRows) :
          ncalls = 0 /\ PlotUpdSites(Path("sites.bed"), args, NoKwargs, rows)
    \/ \E args \in BedArgs, rows \in SeqsUpTo(RohRows, MaxRows) :
          ncalls = 0 /\ PlotAutozyg(Path("roh.bed"), args, NoKwargs, rows)

InitBed == Init /\ build.clip_inplace

SpecBed == InitBed /\ [][NextBed]_vars

-----------------------------------------------------------------------------
(* UPD regions *)

\* str.lower() on the disomy types of the model
lower(t) ==
    CASE t = "HETERODISOMY" -> "heterodisomy"
      [] t = "ISODISOMY" -> "isodisomy"
      [] t = "HOMODISOMY/DELETION" -> "homodisomy/deletion"
      [] t = "ISODISOMY/DELETION" -> "isodisomy/deletion"
      [] t = "HETERODISOMY/DELETION" -> "heterodisomy/deletion"
      [] t = "Heterodisomy" -> "heterodisomy"
      [] t = "TRISOMY" -> "trisomy"
      [] OTHER -> t

\* get_color[key]
color_of(key) ==
    IF key \in DOMAIN get_color THEN Ok(get_color[key]) ELSE Raise("KeyError")

\* _get_tint_color
get_tint_color(disomy_type, parent) ==
    IF disomy_type = "heterodisomy" THEN color_of(parent \o "_LIGHT")
    ELSE IF disomy_type = "homodisomy/deletion"
    THEN color_of("ISODISOMY/DELETION")
    ELSE IF disomy_type = "isodisomy/deletion"
    THEN color_of("ISODISOMY/DELETION")
    ELSE IF disomy_type = "heterodisomy/deletion"
    THEN color_of("HETERODISOMY/DELETION")
    ELSE color_of(parent)

\* chr_utils.parse_upd_regions: the fields of one line of the regions file
parse_upd_regions(line) ==
    [chr |-> line.chrom, start |-> line.start, stop |-> line.stop,
     desc |-> [origin |-> line.origin, type |-> line.type]]

\* region_to_dict
region_to_dict(region) ==
    LET start == region.start
        width == region.stop - region.start
        xranges == <<start, width>>
        disomy_type == lower(region.desc.type)
        origin == region.desc.origin
        color == color_of(origin)
        upper_color == get_tint_color(disomy_type, origin)
    IN  IF color.err # "none" THEN Raise(color.err)
        ELSE IF upper_color.err # "none" THEN Raise(upper_color.err)
        ELSE Ok([chr |-> region.chr, xranges |-> xranges,
                 hbar_lower |-> color.val, hbar_upper |-> upper_color.val])

\* [region_to_dict(i) for i in read_line]
regions_to_dicts(regions) ==
    LET each == [i \in 1..Len(regions) |-> region_to_dict(regions[i])]
    IN  IF \E i \in 1..Len(each) : each[i].err # "none"
        THEN Raise("KeyError")
        ELSE Ok([i \in 1..Len(each) |-> each[i].val])

compile_step_one_run(mylist, i) ==
    LET n == Len(mylist)
    IN  [mylist EXCEPT ![n] =
            [chr |-> IF @.chr = None THEN i.chr ELSE @.chr,
             xranges |-> Append(@.xranges, i.xranges),
             upper |-> Append(@.upper, i.hbar_upper),
             lower |-> Append(@.lower, i.hbar_lower)]]

\* one iteration of the loop of compile_per_chrom
compile_step(mylist, i) ==
    LET n == Len(mylist)
        added == [mylist[n] EXCEPT
                     !.xranges = Append(@, i.xranges),
                     !.upper = Append(@, i.hbar_upper),
                     !.lower = Append(@, i.hbar_lower)]
    IN  IF mylist[n].chr = None
        THEN [mylist EXCEPT ![n] = [added EXCEPT !.chr = i.chr]]
        ELSE IF mylist[n].chr = i.chr
        THEN [mylist EXCEPT ![n] = added]
        ELSE Append(mylist, [chr |-> i.chr, xranges |-> <<i.xranges>>,
                             upper |-> <<i.hbar_upper>>,
                             lower |-> <<i.hbar_lower>>])

RECURSIVE compile_loop(_, _, _)
compile_loop(mylist, hbar_list, k) ==
    IF k > Len(hbar_list) THEN mylist
    ELSE compile_loop(compile_step(mylist, hbar_list[k]), hbar_list, k + 1)

\* compile_per_chrom
compile_per_chrom(hbar_list) ==
    IF hbar_list = <<>> THEN <<>>
    ELSE compile_loop(<<[chr |-> None, xranges |-> <<>>, upper |-> <<>>,
                         lower |-> <<>>]>>, hbar_list, 1)

\* regions_to_hbar: per run the upper and the lower BrokenBarHCollection
regions_to_hbar(runs) ==
    [j \in 1..Len(runs) |->
        <<[xranges |-> runs[j].xranges,
           yrange |-> <<Frac(52, 100), Frac(1, 1)>>,
           facecolors |-> runs[j].upper, label |-> runs[j].chr],
          [xranges |-> runs[j].xranges,
           yrange |-> <<Frac(0, 1), Frac(48, 100)>>,
           facecolors |-> runs[j].lower, label |-> runs[j].chr]>>]

\* fig.savefig(outfile): the file of that name now holds the canvas
savefig(files, label, canvas) ==
    {f \in files : f.label # label} \cup {Image(label, canvas)}

\* the plot loop of plot_upd_regions: per run both bars are added to the
\* canvas, the canvas is saved under the run's label and then cleared
RECURSIVE plot_runs(_, _, _, _)
plot_runs(hbar_list, j, files, printed) ==
    IF j > Len(hbar_list) THEN [outfiles |-> files, is_printed |-> printed]
    ELSE LET bars == hbar_list[j]
             canvas == <<bars[1], bars[2]>>
         IN  plot_runs(hbar_list, j + 1,
                       savefig(files, bars[2].label, canvas),
                       printed \o <<bars[1].label, bars[2].label>>)

PlotUpdRegions(filepath, args, kwargs, lines) ==
    /\ Begin("plot_upd_regions", filepath, args, kwargs, lines,
             args_to_dict(DEFAULT_SETTING, filepath, args, kwargs))
    /\ LET read_line == [i \in 1..Len(lines) |-> parse_upd_regions(lines[i])]
           dicts == regions_to_dicts(read_line)
       IN  IF dicts.err # "none"
           THEN /\ status' = Failed(dicts.err)
                /\ NoRegions
                /\ outfiles' = {}
                /\ is_printed' = <<>>
           ELSE LET runs == compile_per_chrom(dicts.val)
                    hbar_list == regions_to_hbar(runs)
                    plotted == plot_runs(hbar_list, 1, {}, <<>>)
                    blank == print_transparent_pngs(plotted.is_printed)
                IN  /\ region_list' = dicts.val
                    /\ region_list_chr' = runs
                    /\ is_printed' = plotted.is_printed
                    /\ IF ~settings'.euploid
                       THEN /\ outfiles' = plotted.outfiles
                            /\ status' = Done
                       ELSE IF blank.err # "none"
                       THEN /\ outfiles' = plotted.outfiles
                            /\ status' = Failed(blank.err)
                       ELSE /\ outfiles' = plotted.outfiles \cup blank.val
                            /\ status' = Done
    /\ NoLoader
    /\ NoExom
    /\ NoWig

RegionLine(c, s, e, o, t) ==
    [chrom |-> c, start |-> s, stop |-> e, origin |-> o, type |-> t]

RegionLines ==
    {RegionLine("1", 1000, 5000, "MATERNAL", "HETERODISOMY"),
     RegionLine("1", 7000, 9000, "PATERNAL", "ISODISOMY"),
     RegionLine("2", 1000, 5000, "PATERNAL", "ISODISOMY/DELETION"),
     RegionLine("2", 6000, 8000, "MATERNAL", "HETERODISOMY/DELETION"),
     RegionLine("X", 1000, 5000, "MATERNAL", "HOMODISOMY/DELETION"),
     RegionLine("chr3", 1000, 5000, "PATERNAL", "Heterodisomy"),
     RegionLine("1", 1000, 5000, "MATERNAL", "TRISOMY"),
     RegionLine("2", 1000, 5000, "UNKNOWN", "ISODISOMY")}

NextUpd ==
    \E lines \in SeqsUpTo(RegionLines, MaxRows), args \in {{}, {"euploid"}} :
        ncalls = 0 /\ PlotUpdRegions(Path("regions.bed"), args, NoKwargs, lines)

SpecUpd == InitFixed /\ [][NextUpd]_vars

NextColour == NextUpd \/ NextBed

SpecColour == InitFixed /\ [][NextColour]_vars

-----------------------------------------------------------------------------
(* Wiggle tracks *)

DeclLine(name) == "fixedStep chrom=" \o name \o " start=1 step=5000\n"

\* float(line) on the lines of the model: a number, nan, or ValueError
Number(v) == [nan |-> FALSE, v |-> v]
NaN == [nan |-> TRUE, v |-> 0]

float(line) ==
    CASE line = "5\n" -> Ok(Number(5))
      [] line = "80\n" -> Ok(Number(80))
      [] line = "NaN\n" -> Ok(NaN)
      [] line = "nan\n" -> Ok(NaN)
      [] line = "NaN" -> Ok(NaN)
      [] OTHER -> Raise("ValueError")

\* re.search("chrom=(\w*)", line) on the lines of the model
chrom_search(line) ==
    CASE line = DeclLine("1") -> Ok("1")
      [] line = DeclLine("2") -> Ok("2")
      [] line = DeclLine("GL1") -> Ok("GL1")
      [] OTHER -> Raise("no match")

\* wig_value < WIG_MAX, which is False for nan
less_than(f, bound) == ~f.nan /\ f.v < bound

\* the colours that start with '#'
HashColors == {WIG_ORANGE, "#A98200", "#112233"}

\* _rgb_str
rgb_str(color) == IF color \in HashColors THEN color ELSE "#" \o color

\* chr_utils.parse_wig_declaration: step and label kind of the first
\* declaration line of the file
parse_wig_declaration(lines) ==
    LET i == CHOOSE k \in 1..Len(lines) :
                 /\ chrom_search(lines[k]).err = "none"
                 /\ \A j \in 1..(k - 1) : chrom_search(lines[j]).err # "none"
    IN  [chrom |-> chr_type_format(chrom_search(lines[i]).val), step |-> 5000]

\* _wig_args_to_dict
wig_args_to_dict(d, header, filepath, args, kwargs) ==
    LET s0 == args_to_dict(d, filepath, args, kwargs)
        s1 == DictSet(s0, "color", WIG_ORANGE)
        s2 == DictSet(s1, "fixedStep", header.step)
        s3 == IF kwargs.rgb \notin {Absent, None}
              THEN DictSet(s2, "color", rgb_str(kwargs.rgb)) ELSE s2
    IN  IF kwargs.step \notin {Absent, None}
        THEN DictSet(s3, "fixedStep", kwargs.step) ELSE s3

\* plot_coverage_wig and plot_homosnp_wig put their colour in place of an
\* rgb keyword that is None
default_rgb(fn, kwargs) ==
    IF kwargs.rgb = None
    THEN [kwargs EXCEPT !.rgb = IF fn = "plot_coverage_wig"
                                THEN WIG_ORANGE ELSE "#A98200"]
    ELSE kwargs

\* plot_wig_aux up to the opening of the file in wig_to_dataframe
PlotWigBegin(fn, filepath, args, kwargs, lines) ==
    /\ LET header == parse_wig_declaration(lines)
       IN  /\ Begin(fn, filepath, args, kwargs, lines,
                    wig_args_to_dict(DEFAULT_SETTING, header, filepath, args,
                                     default_rgb(fn, kwargs)))
           /\ chromosome_list' = get_chromosome_list(header.chrom)
    /\ status' = Running
    /\ filestream' = lines
    /\ coverage_data' = <<>>
    /\ pos' = 0
    /\ chrom' = ""
    /\ dataframe' = <<>>
    /\ outfiles' = {}
    /\ is_printed' = <<>>
    /\ NoExom
    /\ NoRegions

PlotCoverageWig(filepath, args, kwargs, lines) ==
    PlotWigBegin("plot_coverage_wig", filepath, args, kwargs, lines)

PlotHomosnpWig(filepath, args, kwargs, lines) ==
    PlotWigBegin("plot_homosnp_wig", filepath, args, kwargs, lines)

Reading == status.kind = "running" /\ filestream # <<>>

WigFrame ==
    UNCHANGED <<DEFAULT_SETTING, ncalls, call, settings, infile, status,
                outfiles, is_printed, chromosome_list, dataframe, mask,
                dataframe2, region_list, region_list_chr, build, coords,
                main>>

IsNumeric(line) == line = "NaN\n" \/ float(line).err = "none"

\* a line float() accepts, or the literal "NaN\n"
WigNumericLine ==
    /\ Reading
    /\ IsNumeric(Head(filestream))
    /\ LET line == Head(filestream)
           wig_value == IF line = "NaN\n" THEN Number(0) ELSE float(line).val
           clamped == IF less_than(wig_value, WIG_MAX) THEN wig_value.v
                      ELSE WIG_MAX
       IN  coverage_data' =
               Append(coverage_data,
                      [chrom |-> chrom, coverage |-> clamped, pos |-> pos])
    /\ pos' = pos + settings.fixedStep
    /\ chrom' = chrom
    /\ filestream' = Tail(filestream)
    /\ WigFrame

\* start_pos, which the code builds and never appends
start_pos(label, p) == [chrom |-> label, coverage |-> 0, pos |-> 1]

\* the zero that closes the chromosome one past the running position
stop_pos(label, p) == [chrom |-> label, coverage |-> 0, pos |-> p + 1]

\* the zero at the fixed end position
last_pos(label) == [chrom |-> label, coverage |-> 0, pos |-> CHROM_END_POS]

\* a line float() rejects and the chrom= pattern matches
WigDeclarationLine ==
    /\ Reading
    /\ ~IsNumeric(Head(filestream))
    /\ chrom_search(Head(filestream)).err = "none"
    /\ coverage_data' = Append(Append(coverage_data, stop_pos(chrom, pos)),
                               last_pos(chrom))
    /\ chrom' = chrom_search(Head(filestream)).val
    /\ pos' = 0
    /\ filestream' = Tail(filestream)
    /\ WigFrame

\* any other line
WigIgnoredLine ==
    /\ Reading
    /\ ~IsNumeric(Head(filestream))
    /\ chrom_search(Head(filestream)).err # "none"
    /\ filestream' = Tail(filestream)
    /\ UNCHANGED <<coverage_data, chrom, pos>>
    /\ WigFrame

\* print_area_graph as the module defines it last: its loop body calls the
\* undefined common_settings, its euploid branch names the undefined file
print_area_graph(rows, combine, euploid) ==
    IF combine THEN Ok(<<>>)
    ELSE IF rows # <<>> THEN Raise("NameError: common_settings")
    ELSE IF euploid THEN Raise("NameError: file")
    ELSE Ok(<<>>)

\* the end of the file: the rest of plot_wig_aux.  The normalized_coverage
\* column is left out: print_area_graph draws nothing from it.
PlotWigEnd ==
    /\ status.kind = "running"
    /\ filestream = <<>>
    /\ LET rows == filter_dataframe(coverage_data, chromosome_list)
           printed == print_area_graph(rows, settings.combine,
                                       settings.euploid)
       IN  /\ dataframe' = rows
           /\ status' = IF printed.err # "none" THEN Failed(printed.err)
                        ELSE Done
    /\ UNCHANGED <<DEFAULT_SETTING, ncalls, call, settings, infile, outfiles,
                   is_printed, chromosome_list, mask, dataframe2, region_list,
                   region_list_chr, filestream, chrom, pos, coverage_data,
                   build, coords, main>>

MaxLines == 4

DataLines == {"5\n", "80\n", "NaN\n", "nan\n", "track type=wiggle_0\n"}

WigLines == DataLines \cup {DeclLine("1"), DeclLine("2"), DeclLine("GL1")}

\* a file starts with a declaration line; only its last line can lack the
\* newline
WigFiles ==
    {<<d>> \o body \o last :
        d \in {DeclLine("1"), DeclLine("GL1")},
        body \in SeqsUpTo(WigLines, MaxLines - 2),
        last \in {<<>>, <<"NaN">>, <<"5\n">>}}

NextWig ==
    \/ \E lines \in WigFiles, args \in {{}, {"euploid"}} :
          ncalls = 0 /\ PlotCoverageWig(Path("cov.wig"), args, NoKwargs, lines)
    \/ \E lines \in WigFiles, args \in {{"combine"}, {"norm"}} :
          /\ ncalls = 0
          /\ PlotHomosnpWig(Path("snp.wig"), args,
                            [NoKwargs EXCEPT !.rgb = None], lines)
    \/ WigNumericLine
    \/ WigDeclarationLine
    \/ WigIgnoredLine
    \/ PlotWigEnd

SpecWig == InitFixed /\ [][NextWig]_vars

-----------------------------------------------------------------------------
(* A process that calls the entry points one after another *)

ArgSets == {{}, {"combine"}, {"norm", "euploid"}, {"combine", "norm", "euploid"}}

Dirs == {"in", "in2"}

OutdKwargs == {[NoKwargs EXCEPT !.outd = OutDir],
               [NoKwargs EXCEPT !.outd = None]}

SampleIdeogram == <<BedRow("1", 0, 2300000, "gneg")>>
SampleSites == <<BedRow("1", 100, 101, "ANTI_UPD")>>
SampleRoh == <<BedRow("1", 100, 5000, "")>>
SampleExom == <<ExomRow("1", 5000, 6000, 5)>>
SampleRegions == <<RegionLine("1", 1000, 5000, "MATERNAL", "HETERODISOMY")>>
SampleWig == <<DeclLine("1"), "track type=wiggle_0\n", "5\n">>

NextProcess ==
    \/ \E a \in ArgSets, kw \in OutdKwargs, d \in Dirs :
          /\ ncalls < MaxCalls
          /\ PlotIdeogram([dir |-> d, base |-> "cytoband.bed"], a, kw,
                          SampleIdeogram)
    \/ \E a \in ArgSets, kw \in OutdKwargs, d \in Dirs :
          /\ ncalls < MaxCalls
          /\ PlotUpdSites([dir |-> d, base |-> "sites.bed"], a, kw,
                          SampleSites)
    \/ \E a \in ArgSets, kw \in OutdKwargs, d \in Dirs :
          /\ ncalls < MaxCalls
          /\ PlotAutozyg([dir |-> d, base |-> "roh.bed"], a, kw, SampleRoh)
    \/ \E a \in ArgSets, kw \in OutdKwargs, d \in Dirs :
          /\ ncalls < MaxCalls
          /\ PlotExomCoverage([dir |-> d, base |-> "exom.bed"], a, kw,
                              SampleExom)
    \/ \E a \in ArgSets, kw \in OutdKwargs, d \in Dirs :
          /\ ncalls < MaxCalls
          /\ PlotUpdRegions([dir |-> d, base |-> "regions.bed"], a, kw,
                            SampleRegions)
    \/ \E a \in ArgSets, kw \in OutdKwargs, d \in Dirs :
          /\ ncalls < MaxCalls
          /\ PlotCoverageWig([dir |-> d, base |-> "cov.wig"], a, kw, SampleWig)
    \/ \E a \in ArgSets, kw \in OutdKwargs, d \in Dirs :
          /\ ncalls < MaxCalls
          /\ PlotHomosnpWig([dir |-> d, base |-> "snp.wig"], a, kw, SampleWig)
    \/ WigNumericLine
    \/ WigDeclarationLine
    \/ WigIgnoredLine
    \/ PlotWigEnd

SpecProcess == InitFixed /\ [][NextProcess]_vars

-----------------------------------------------------------------------------
(* main: the command line run *)

\* the keywords main passes: the options -d, --step and -k were not given
MainKwargs == [outd |-> None, step |-> None, rgb |-> None]

\* the flags of the command line that main passes on to a track
passed(flags) == main.args \cap flags

\* parse_args: the files asked for and the flags -x, -e, -n
MainEnter(requested, flags) ==
    /\ main = NoMain
    /\ ncalls = 0
    /\ main' = [pc |-> 1, requested |-> requested, args |-> flags,
                calls |-> <<>>]
    /\ UNCHANGED <<DEFAULT_SETTING, ncalls, call, settings, infile, status,
                   outfiles, is_printed, chromosome_list, dataframe, mask,
                   dataframe2, region_list, region_list_chr, filestream,
                   chrom, pos, coverage_data, build, coords>>

\* main is at the if statement of the track fn and the file was given
MainAt(fn) ==
    /\ main.pc \in 1..Len(MainOrder)
    /\ MainOrder[main.pc] = fn
    /\ fn \in main.requested

MainIdeogram(rows) ==
    /\ MainAt("plot_ideogram")
    /\ PlotIdeogram(Path("cytoband.bed"), passed({"combine"}), MainKwargs, rows)

MainUpdSites(rows) ==
    /\ MainAt("plot_upd_sites")
    /\ PlotUpdSites(Path("sites.bed"), passed({"combine", "euploid"}),
                    MainKwargs, rows)

MainAutozyg(rows) ==
    /\ MainAt("plot_autozyg")
    /\ PlotAutozyg(Path("roh.bed"), passed({"combine", "euploid"}),
                   MainKwargs, rows)

MainExomCoverage(rows) ==
    /\ MainAt("plot_exom_coverage")
    /\ PlotExomCoverage(Path("exom.bed"), passed({"combine", "euploid"}),
                        MainKwargs, rows)

MainCoverageWig(lines) ==
    /\ MainAt("plot_coverage_wig")
    /\ PlotCoverageWig(Path("cov.wig"), passed({"combine", "norm", "euploid"}),
                       MainKwargs, lines)

MainHomosnpWig(lines) ==
    /\ MainAt("plot_homosnp_wig")
    /\ PlotHomosnpWig(Path("snp.wig"), passed({"combine", "norm", "euploid"}),
                      MainKwargs, lines)

MainUpdRegions(lines) ==
    /\ MainAt("plot_upd_regions")
    /\ PlotUpdRegions(Path("regions.bed"), passed({"euploid"}), MainKwargs,
                      lines)

\* an if statement whose file was not given
MainSkip ==
    /\ Alive
    /\ main.pc \in 1..Len(MainOrder)
    /\ MainOrder[main.pc] \notin main.requested
    /\ main' = [main EXCEPT !.pc = @ + 1]
    /\ UNCHANGED <<DEFAULT_SETTING, ncalls, call, settings, infile, status,
                   outfiles, is_printed, chromosome_list, dataframe, mask,
                   dataframe2, region_list, region_list_chr, filestream,
                   chrom, pos, coverage_data, build, coords>>

\* the last statement of main: without any argument it prints the help and
\* exits, else main returns
MainReturn ==
    /\ Alive
    /\ main.pc = Len(MainOrder) + 1
    /\ main' = [main EXCEPT !.pc = @ + 1]
    /\ status' = IF main.requested = {} /\ main.args = {}
                 THEN Failed("SystemExit(0)") ELSE status
    /\ UNCHANGED <<DEFAULT_SETTING, ncalls, call, settings, infile,
                   outfiles, is_printed, chromosome_list, dataframe, mask,
                   dataframe2, region_list, region_list_chr, filestream,
                   chrom, pos, coverage_data, build, coords>>

MainIdeogramFiles ==
    {SampleIdeogram, <<BedRow("1", 5300000, 7100000, "gpos33")>>, <<>>}

MainSitesFiles == {SampleSites, <<BedRow("2", 700, 701, "UPD_UNKNOWN")>>}

MainRohFiles == {SampleRoh, <<>>}

MainExomFiles == {SampleExom, <<ExomRow("2", 150, 400, 40)>>}

MainWigFiles == {SampleWig}

MainRegionFiles ==
    {SampleRegions, <<RegionLine("2", 1000, 5000, "UNKNOWN", "ISODISOMY")>>}

MainFlags == {{}, {"combine"}, {"euploid"}}

NextMain ==
    \/ \E requested \in SUBSET Range(MainOrder), flags \in MainFlags :
          MainEnter(requested, flags)
    \/ \E rows \in MainIdeogramFiles : MainIdeogram(rows)
    \/ \E rows \in MainSitesFiles : MainUpdSites(rows)
    \/ \E rows \in MainRohFiles : MainAutozyg(rows)
    \/ \E rows \in MainExomFiles : MainExomCoverage(rows)
    \/ \E lines \in MainWigFiles : MainCoverageWig(lines)
    \/ \E lines \in MainWigFiles : MainHomosnpWig(lines)
    \/ \E lines \in MainRegionFiles : MainUpdRegions(lines)
    \/ MainSkip
    \/ MainReturn
    \/ WigNumericLine
    \/ WigDeclarationLine
    \/ WigIgnoredLine
    \/ PlotWigEnd

SpecMain == InitFixed /\ [][NextMain]_vars

-----------------------------------------------------------------------------
(* Properties of the segment merger *)

ExomMerged == call.fn = "plot_exom_coverage" /\ status.kind # "exit"

RECURSIVE sum_width(_, _, _)
sum_width(rows, I, i) ==
    IF i = 0 THEN 0
    ELSE sum_width(rows, I, i - 1)
         + (IF i \in I THEN rows[i].end - rows[i].start ELSE 0)

\* sum(width_i * meanCoverage_i) / sum(width_i) over the rows of a segment
WeightedMean(seg) ==
    Frac(sum_weight(dataframe, seg.rows, Len(dataframe)),
         sum_width(dataframe, seg.rows, Len(dataframe)))

\* C2: the bar_height of every merged segment is the width-weighted mean of
\* the meanCoverage of the rows merged into it.
C2_WeightedMean ==
    ExomMerged =>
        \A j \in 1..Len(dataframe2) :
            dataframe2[j].bar_height = WeightedMean(dataframe2[j])

\* the rows of the input that are in the allow-list and reach the floor
Surviving ==
    SelectSeq(infile, LAMBDA r : /\ r.chrom \in Range(chromosome_list)
                                 /\ r.meanCoverage >= COVERAGE_FLOOR)

\* C3: over the rows that survive the coverage floor, in file order, the run
\* id changes at a row exactly when its start minus the previous surviving
\* row's end exceeds 10000, and then it grows by one; so two surviving rows
\* make two runs when their gap exceeds 10000 and one run otherwise.
C3_RunPartition ==
    ExomMerged =>
        /\ dataframe = Surviving
        /\ Len(mask) = Len(dataframe)
        /\ \A i \in 2..Len(dataframe) :
              LET gap == dataframe[i].start - dataframe[i - 1].end
              IN  /\ (mask[i] # mask[i - 1]) <=> (gap > 10000)
                  /\ mask[i] \in {mask[i - 1], mask[i - 1] + 1}
        /\ Len(dataframe) = 2 =>
              Cardinality(Range(mask)) =
                  IF dataframe[2].start - dataframe[1].end > 10000
                  THEN 2 ELSE 1

\* a low-coverage row between two rows is skipped: the gap that starts the
\* new run is measured from the surviving row before it
C3_Witness ==
    /\ ExomMerged
    /\ Len(infile) = 3
    /\ infile[2].meanCoverage < COVERAGE_FLOOR
    /\ infile[3].start - infile[2].end <= 10000
    /\ Len(dataframe) = 2
    /\ mask[2] = mask[1] + 1

\* C4: merging zero intervals gives zero segments, and merging one interval
\* gives one segment with that interval's start, end and meanCoverage.
C4_Degenerate ==
    ExomMerged =>
        /\ Len(dataframe) = 0 => dataframe2 = <<>>
        /\ Len(dataframe) = 1 =>
              /\ Len(dataframe2) = 1
              /\ dataframe2[1].start = dataframe[1].start
              /\ dataframe2[1].end = dataframe[1].end
              /\ dataframe2[1].bar_height = Frac(dataframe[1].meanCoverage, 1)

\* the (run, chromosome) pairs of the surviving rows
RunChromPairs == {<<mask[i], dataframe[i].chrom>> : i \in 1..Len(dataframe)}

\* C16: the merger emits exactly one segment per (run, chromosome) pair of
\* the surviving rows, and emits the segments in file order: a segment whose
\* first row comes earlier in the input comes earlier in the output.
C16_InputOrder ==
    ExomMerged =>
        /\ Len(dataframe2) = Cardinality(RunChromPairs)
        /\ {<<dataframe2[j].mask, dataframe2[j].chrom>> :
                j \in 1..Len(dataframe2)} = RunChromPairs
        /\ \A a, b \in 1..Len(dataframe2) :
              a < b => Min(dataframe2[a].rows) < Min(dataframe2[b].rows)

-----------------------------------------------------------------------------
(* Properties of the bed loader *)

Loaded ==
    call.fn \in {"plot_ideogram", "plot_upd_sites", "plot_autozyg",
                 "plot_exom_coverage"}

\* C9: a call whose table has zero rows ends with an error that reaches the
\* caller, writes no image, and gives a command-line run a non-zero exit
\* status.
C9_EmptyInput ==
    (Loaded /\ infile = <<>>) =>
        /\ status.kind \in {"exit", "error"}
        /\ outfiles = {}
        /\ ExitStatus # 0

AllUnprefixed(rows) ==
    \A i \in 1..Len(rows) : rows[i].chrom \in Range(CHROMOSOMES)

AllPrefixed(rows) ==
    \A i \in 1..Len(rows) : rows[i].chrom \in Range(get_chromosome_list("str"))

\* C10: for a table whose labels are all of one encoding the loader selects
\* the allow-list of that encoding, whatever the first row is, and every row
\* survives the filter.
C10_Convention ==
    (Loaded /\ infile # <<>>) =>
        /\ AllUnprefixed(infile) =>
              /\ chromosome_list = get_chromosome_list("int")
              /\ Len(dataframe) = Len(infile)
        /\ AllPrefixed(infile) =>
              /\ chromosome_list = get_chromosome_list("str")
              /\ Len(dataframe) = Len(infile)

-----------------------------------------------------------------------------
(* Properties of the UPD region classifier and of the colour lookups *)

RegionsParsed == call.fn = "plot_upd_regions" /\ Len(region_list) = Len(infile)

\* C6: a heterodisomy region of MATERNAL origin has the MATERNAL_LIGHT colour
\* on its upper bar and the MATERNAL colour on its lower bar; an
\* isodisomy/deletion region has the ISODISOMY/DELETION colour on both bars,
\* whatever its origin.
C6_Classifier ==
    RegionsParsed =>
        \A i \in 1..Len(infile) :
            /\ (lower(infile[i].type) = "heterodisomy"
                    /\ infile[i].origin = "MATERNAL") =>
                  /\ region_list[i].hbar_upper = get_color["MATERNAL_LIGHT"]
                  /\ region_list[i].hbar_lower = get_color["MATERNAL"]
            /\ lower(infile[i].type) = "isodisomy/deletion" =>
                  /\ region_list[i].hbar_upper = get_color["ISODISOMY/DELETION"]
                  /\ region_list[i].hbar_lower = get_color["ISODISOMY/DELETION"]

\* the disomy types the classifier names
KnownDisomyTypes ==
    {"heterodisomy", "isodisomy", "homodisomy/deletion", "isodisomy/deletion",
     "heterodisomy/deletion"}

\* C7: a UPD region whose origin or disomy type is outside the colour
\* vocabulary, and an ideogram stain or UPD site type outside it, ends the
\* plot operation in an error; no colour is substituted.
C7_UnknownKeyIsError ==
    /\ (call.fn = "plot_upd_regions"
            /\ \E i \in 1..Len(infile) :
                  \/ infile[i].origin \notin DOMAIN get_color
                  \/ lower(infile[i].type) \notin KnownDisomyTypes)
       => status.kind = "error" /\ outfiles = {}
    /\ (call.fn \in {"plot_ideogram", "plot_upd_sites"}
            /\ \E i \in 1..Len(dataframe) :
                  dataframe[i].key \notin DOMAIN get_color)
       => status.kind = "error" /\ outfiles = {}

\* the region dicts a run stands for, in the order of its lists
RegionsOfRun(run) ==
    [k \in 1..Len(run.xranges) |->
        [chr |-> run.chr, xranges |-> run.xranges[k],
         hbar_lower |-> run.lower[k], hbar_upper |-> run.upper[k]]]

RECURSIVE RegionsOfRuns(_, _)
RegionsOfRuns(runs, j) ==
    IF j = 0 THEN <<>>
    ELSE RegionsOfRuns(runs, j - 1) \o RegionsOfRun(runs[j])

\* C15: the runs of compile_per_chrom, concatenated in order, are the region
\* dicts of the input in input order, every entry under the chromosome of
\* its run; the three lists of a run have one length; two adjacent runs have
\* different chromosomes; and no region gives no run.
C15_ConsecutiveGrouping ==
    RegionsParsed =>
        /\ \A j \in 1..Len(region_list_chr) :
              /\ Len(region_list_chr[j].xranges) >= 1
              /\ Len(region_list_chr[j].upper) = Len(region_list_chr[j].xranges)
              /\ Len(region_list_chr[j].lower) = Len(region_list_chr[j].xranges)
        /\ RegionsOfRuns(region_list_chr, Len(region_list_chr)) = region_list
        /\ \A j \in 2..Len(region_list_chr) :
              region_list_chr[j].chr # region_list_chr[j - 1].chr
        /\ region_list = <<>> => region_list_chr = <<>>

\* three regions have been grouped into a run of two and a run of one
C15_Witness ==
    /\ RegionsParsed
    /\ Len(region_list) = 3
    /\ Len(region_list_chr) = 2
    /\ Len(region_list_chr[1].xranges) = 2
    /\ region_list_chr[1].chr # region_list_chr[2].chr

\* the image file of chromosome c holds both bars of the region dict r
HoldsRegion(f, r) ==
    \E k \in 1..Len(f.bars[1].xranges) :
        /\ f.bars[1].xranges[k] = r.xranges
        /\ f.bars[1].facecolors[k] = r.hbar_upper
        /\ f.bars[2].xranges[k] = r.xranges
        /\ f.bars[2].facecolors[k] = r.hbar_lower

\* C18: when plot_upd_regions has drawn its regions, every chromosome of the
\* input has an image file, and that file holds the upper and the lower bar
\* of every region parsed for the chromosome, also when the chromosome's
\* regions are not consecutive in the input.
C18_RegionsComplete ==
    RegionsParsed =>
        \A i \in 1..Len(region_list) :
            \E f \in outfiles :
                /\ f.kind = "image"
                /\ f.label = region_list[i].chr
                /\ HoldsRegion(f, region_list[i])

-----------------------------------------------------------------------------
(* Properties of the wiggle decoder *)

WigDecoded ==
    /\ call.fn \in {"plot_coverage_wig", "plot_homosnp_wig"}
    /\ status.kind # "running"

IsDeclaration(line) == ~IsNumeric(line) /\ chrom_search(line).err = "none"

Declarations(lines) == {i \in 1..Len(lines) : IsDeclaration(lines[i])}

\* every declaration line is followed by a numeric line and names a
\* chromosome no other declaration names
WellFormedWig(lines) ==
    /\ \A i \in Declarations(lines) :
          i < Len(lines) /\ IsNumeric(lines[i + 1])
    /\ \A i, j \in Declarations(lines) :
          i # j => chrom_search(lines[i]).val # chrom_search(lines[j]).val

\* the chromosomes of the decoded points, without the empty label the first
\* declaration closes
DecodedGroups ==
    {coverage_data[i].chrom : i \in 1..Len(coverage_data)} \ {""}

LastPointOf(c) ==
    coverage_data[Max({i \in 1..Len(coverage_data) :
                          coverage_data[i].chrom = c})]

\* C5: a stream with N declaration lines, each followed by numeric lines,
\* decodes to N chromosome groups, and the last point of every group is a
\* zero-value point at CHROM_END_POS.
C5_GroupsEndWithSentinel ==
    (WigDecoded /\ WellFormedWig(infile)) =>
        /\ Cardinality(DecodedGroups) = Cardinality(Declarations(infile))
        /\ \A c \in DecodedGroups :
              /\ LastPointOf(c).coverage = 0
              /\ LastPointOf(c).pos = CHROM_END_POS

\* wig_to_dataframe takes one line off the stream
LineStep == Reading /\ filestream' = Tail(filestream)

\* C13: a step over a line that matches chrom=<name> appends exactly two
\* zero-value points labelled with the chromosome current before the line,
\* the first at the running position + 1 and the second at CHROM_END_POS,
\* and leaves the matched name as current chromosome and 0 as running
\* position; a step over a line that is neither numeric nor a declaration
\* leaves the points, the current chromosome and the running position alone.
C13_DeclarationStep ==
    [][LineStep =>
          LET line == Head(filestream)
          IN  /\ IsDeclaration(line) =>
                    /\ Len(coverage_data') = Len(coverage_data) + 2
                    /\ SubSeq(coverage_data', 1, Len(coverage_data))
                          = coverage_data
                    /\ coverage_data'[Len(coverage_data) + 1]
                          = [chrom |-> chrom, coverage |-> 0, pos |-> pos + 1]
                    /\ coverage_data'[Len(coverage_data) + 2]
                          = [chrom |-> chrom, coverage |-> 0,
                             pos |-> CHROM_END_POS]
                    /\ chrom' = chrom_search(line).val
                    /\ pos' = 0
              /\ (~IsNumeric(line) /\ ~IsDeclaration(line)) =>
                    UNCHANGED <<coverage_data, chrom, pos>>]_vars

\* the declaration of chromosome 2 has closed chromosome 1 after one numeric
\* line
C13_Witness ==
    /\ status.kind = "running"
    /\ Len(infile) >= 3
    /\ SubSeq(infile, 1, 3) = <<DeclLine("1"), "5\n", DeclLine("2")>>
    /\ Len(filestream) = Len(infile) - 3
    /\ chrom = "2"
    /\ pos = 0
    /\ Len(coverage_data) = 5
    /\ coverage_data[4] = [chrom |-> "1", coverage |-> 0, pos |-> 5001]
    /\ coverage_data[5] = [chrom |-> "1", coverage |-> 0, pos |-> CHROM_END_POS]

\* the spellings of the NaN token among the lines of the model
IsNaNToken(line) == line \in {"NaN\n", "nan\n", "NaN"}

\* min(value, WIG_MAX), and 0 for a NaN token
ExpectedValue(line) ==
    IF IsNaNToken(line) THEN 0
    ELSE IF float(line).val.v < WIG_MAX THEN float(line).val.v ELSE WIG_MAX

\* C14: a step over a numeric line appends exactly one point: the current
\* chromosome, min(value, WIG_MAX) and the running position, with value 0
\* for every spelling of the NaN token, and then advances the running
\* position by the step.
C14_NumericStep ==
    [][LineStep =>
          LET line == Head(filestream)
          IN  IsNumeric(line) =>
                 /\ coverage_data' =
                       Append(coverage_data,
                              [chrom |-> chrom,
                               coverage |-> ExpectedValue(line),
                               pos |-> pos])
                 /\ pos' = pos + settings.fixedStep
                 /\ chrom' = chrom]_vars

-----------------------------------------------------------------------------
(* Properties of the settings *)

Called == call.fn # "none"

\* the settings the last call would get as the first call of a process
FreshSettings ==
    args_to_dict(DefaultSettingAtImport, call.filepath, call.args, call.kwargs)

\* C1: the combine, normalize, euploid and outd settings a call works with
\* depend on its own filepath, args and kwargs only: they are the settings
\* the same call gets as the first call of a process.
C1_IndependentCalls ==
    Called =>
        \A k \in {"combine", "normalize", "euploid", "outd"} :
            settings[k] = FreshSettings[k]

\* the key of settings an argument sets
FlagKey == [combine |-> "combine", norm |-> "normalize", euploid |-> "euploid"]

\* a plot_* function is entered
CallStep == ncalls' = ncalls + 1

\* C17: every call works on the shared dict: a flag that was True in the
\* settings of the call before, or that the call passes, is True in its
\* settings, so a flag once passed stays True for every later call of the
\* process; outd is the call's own outd keyword, or else the directory of
\* its own file, whatever the call before had.
C17_StickyFlags ==
    [][CallStep =>
          /\ DEFAULT_SETTING' = settings'
          /\ \A f \in DOMAIN FlagKey :
                /\ settings[FlagKey[f]] => settings'[FlagKey[f]]
                /\ f \in call'.args => settings'[FlagKey[f]]
          /\ settings'.outd =
                IF call'.kwargs.outd \notin {Absent, None}
                THEN call'.kwargs.outd
                ELSE call'.filepath.dir]_vars

\* a second call that passes no flag runs with the flags of the first and
\* with the directory of its own file
C17_Witness ==
    /\ ncalls = 2
    /\ call.args = {}
    /\ call.kwargs.outd = None
    /\ call.filepath.dir = "in2"
    /\ settings.combine /\ settings.normalize /\ settings.euploid
    /\ settings.outd = "in2"

-----------------------------------------------------------------------------
(* Properties of the placeholder step *)

Produced(c) ==
    \E f \in outfiles : f.kind = "image" /\ f.label \in {c, "chr" \o c}

PlaceholdersOf(c) ==
    {f \in outfiles : f.kind = "placeholder" /\ f.label \in {c, "chr" \o c}}

\* the last call has drawn its per-chromosome images and asked for the
\* euploid set
AtPlaceholderStep ==
    /\ settings.euploid
    /\ ~settings.combine
    /\ \/ call.fn \in {"plot_ideogram", "plot_upd_sites", "plot_autozyg"}
             /\ status.kind = "ok"
       \/ RegionsParsed
       \/ ExomMerged
       \/ WigDecoded

\* C8: with the euploid option, whatever set of chromosomes the call has
\* produced, it writes one placeholder for every chromosome of CHROMOSOMES
\* it has not produced and none for one it has produced.
C8_EuploidComplete ==
    AtPlaceholderStep =>
        \A i \in 1..Len(CHROMOSOMES) :
            Cardinality(PlaceholdersOf(CHROMOSOMES[i])) =
                IF Produced(CHROMOSOMES[i]) THEN 0 ELSE 1

-----------------------------------------------------------------------------
(* Properties of the layout *)

Distinct(list) ==
    \A i, j \in 1..Len(list) : i # j => list[i] # list[j]

\* 2 * c = n for a fraction c
IsHalfOf(c, n) == 2 * c.num = n * c.den

\* C11: for a list of distinct labels graph_coordinates gives the i-th label
\* (counted from 0) the base offset i * (HEIGHT + SPACE) and the centre
\* offset base + HEIGHT / 2, so the bases grow strictly along the list; for
\* <<A, B, C>> the bases are 0, 2, 4 and the centres 1/2, 5/2, 9/2.
C11_Layout ==
    Distinct(coords.list) =>
        /\ DOMAIN coords.chrom_ybase = Range(coords.list)
        /\ DOMAIN coords.chrom_centers = Range(coords.list)
        /\ \A i \in 1..Len(coords.list) :
              LET c == coords.list[i]
              IN  /\ coords.chrom_ybase[c] = (i - 1) * (HEIGHT + SPACE)
                  /\ IsHalfOf(coords.chrom_centers[c],
                              2 * coords.chrom_ybase[c] + HEIGHT)
        /\ \A i, j \in 1..Len(coords.list) :
              i < j => coords.chrom_ybase[coords.list[i]]
                          < coords.chrom_ybase[coords.list[j]]
        /\ coords.list = <<"A", "B", "C">> =>
              /\ coords.chrom_ybase = [A |-> 0, B |-> 2, C |-> 4]
              /\ coords.chrom_centers =
                    [A |-> [num |-> 1, den |-> 2], B |-> [num |-> 5, den |-> 2],
                     C |-> [num |-> 9, den |-> 2]]

\* the list of the example has been laid out
C11_Witness ==
    /\ coords.list = <<"A", "B", "C">>
    /\ coords.chrom_ybase["C"] = 4

-----------------------------------------------------------------------------
(* Properties of main *)

\* the run of main is over: a call has ended the process or main returned
MainOver ==
    /\ main.pc >= 1
    /\ \/ status.kind \in {"exit", "error"}
       \/ main.pc = Len(MainOrder) + 2

\* the tracks whose call ended in an error or an exit
FailedTracks ==
    IF status.kind \in {"exit", "error"} /\ main.calls # <<>>
    THEN {main.calls[Len(main.calls)]} ELSE {}

\* the tracks whose call returned
ProcessedTracks == Range(main.calls) \ FailedTracks

\* C12: when a run of main is over, every track that was asked for and did
\* not itself end in an error has been processed, whether main calls it
\* before or after a track that failed.
C12_TrackIsolation ==
    MainOver => (main.requested \ FailedTracks) \subseteq ProcessedTracks

====
